---- MODULE Spec2Model ----
(***************************************************************************)
(* Model of main.py: the BigDataCorp provider client (make_request), the   *)
(* field resolvers (get_rg .. get_dt_nasc), the two row fillers and the    *)
(* driving loop of main().                                                 *)
(*                                                                         *)
(* Python values are records tagged by k: "str" (s, a sequence of          *)
(* one-character strings), "num" (n, an integer), "null" (None), "list"    *)
(* (l), "obj" (items, the ordered <<key, value>> pairs of a dict) and      *)
(* "nan" (a null table cell).  The outcome of a Python expression is a     *)
(* record [exc, val]: exc = "none" when it returned val, otherwise the     *)
(* class of the exception it raised.                                       *)
(***************************************************************************)
EXTENDS Integers, Sequences, FiniteSets, TLC

\* ------------------------------------------------------------------------
\* Python values
\* ------------------------------------------------------------------------
Str(s) == [k |-> "str", s |-> s]
Num(n) == [k |-> "num", n |-> n]
Null == [k |-> "null"]
List(l) == [k |-> "list", l |-> l]
Obj(items) == [k |-> "obj", items |-> items]
NaN == [k |-> "nan"]
EmptyStr == Str(<<>>)
EmptyObj == Obj(<<>>)

Ret(v) == [exc |-> "none", val |-> v]
Raise(e) == [exc |-> e, val |-> Null]

\* Exception classes and the base class each one derives from.
Super(e) ==
  CASE e = "JSONDecodeError" -> "ValueError"
    [] e = "UnicodeDecodeError" -> "ValueError"
    [] e = "ConnectionError" -> "OSError"
    [] e = "TimeoutError" -> "OSError"
    [] e = "IncompleteRead" -> "HTTPException"
    [] OTHER -> "Exception"

\* except (classes): the raised class or one of its bases is listed.
Handles(classes, e) ==
  \/ e \in classes
  \/ Super(e) \in classes
  \/ "Exception" \in classes

\* bool(v)
Truthy(v) ==
  CASE v.k = "str" -> v.s # <<>>
    [] v.k = "num" -> v.n # 0
    [] v.k = "list" -> v.l # <<>>
    [] v.k = "obj" -> v.items # <<>>
    [] OTHER -> FALSE

HasKey(items, key) == \E i \in 1..Len(items) : items[i][1] = key

Lookup(items, key) ==
  items[CHOOSE i \in 1..Len(items) : items[i][1] = key][2]

\* v.get(key, default): only a dict has .get
PyGet(v, key, default) ==
  IF v.k = "obj"
  THEN Ret(IF HasKey(v.items, key) THEN Lookup(v.items, key) ELSE default)
  ELSE Raise("AttributeError")

\* v[0]
PyIndex0(v) ==
  CASE v.k = "list" -> IF v.l = <<>> THEN Raise("IndexError") ELSE Ret(v.l[1])
    [] v.k = "str" -> IF v.s = <<>> THEN Raise("IndexError") ELSE Ret(Str(<<v.s[1]>>))
    [] v.k = "obj" -> Raise("KeyError")
    [] OTHER -> Raise("TypeError")

\* a + b
PyAdd(a, b) ==
  CASE a.k = "str" /\ b.k = "str" -> Ret(Str(a.s \o b.s))
    [] a.k = "num" /\ b.k = "num" -> Ret(Num(a.n + b.n))
    [] a.k = "list" /\ b.k = "list" -> Ret(List(a.l \o b.l))
    [] OTHER -> Raise("TypeError")

\* ------------------------------------------------------------------------
\* Decimal text
\* ------------------------------------------------------------------------
DigitChars == <<"0", "1", "2", "3", "4", "5", "6", "7", "8", "9">>

IsDigit(c) == \E i \in 1..Len(DigitChars) : DigitChars[i] = c

DigitVal(c) == (CHOOSE i \in 1..Len(DigitChars) : DigitChars[i] = c) - 1

AllDigits(s) == \A i \in 1..Len(s) : IsDigit(s[i])

RECURSIVE DecVal(_)
DecVal(s) ==
  IF s = <<>> THEN 0
  ELSE 10 * DecVal(SubSeq(s, 1, Len(s) - 1)) + DigitVal(s[Len(s)])

RECURSIVE NatChars(_)
NatChars(n) ==
  IF n < 10 THEN <<DigitChars[n + 1]>>
  ELSE NatChars(n \div 10) \o <<DigitChars[(n % 10) + 1]>>

IntChars(n) == IF n < 0 THEN <<"-">> \o NatChars(0 - n) ELSE NatChars(n)

\* "%02d"
Pad2(n) == IF n < 10 THEN <<"0">> \o NatChars(n) ELSE NatChars(n)

\* repr(v) and str(v) for the values that can stand at a scalar's place
RECURSIVE PyRepr(_)
RECURSIVE ReprJoin(_)
ReprJoin(l) ==
  IF l = <<>> THEN <<>>
  ELSE IF Len(l) = 1 THEN PyRepr(l[1])
  ELSE PyRepr(l[1]) \o <<",", " ">> \o ReprJoin(Tail(l))

PyRepr(v) ==
  CASE v.k = "str" -> <<"'">> \o v.s \o <<"'">>
    [] v.k = "num" -> IntChars(v.n)
    [] v.k = "null" -> <<"N", "o", "n", "e">>
    [] v.k = "list" -> <<"[">> \o ReprJoin(v.l) \o <<"]">>
    [] v.k = "obj" /\ v.items = <<>> -> <<"{", "}">>

PyStr(v) == IF v.k = "str" THEN v ELSE Str(PyRepr(v))

\* ------------------------------------------------------------------------
\* Provider client
\* ------------------------------------------------------------------------
\* What the provider and the network do to one request: fail names the
\* statement of the try block that raises ("none": all four succeed) and
\* body is the decoded response body.  JsonText(v) is the text that
\* json.loads turns into v; any other text is kept character by character.
JsonText(v) == [k |-> "text", json |-> v]

Outcome(fail, body) == [fail |-> fail, body |-> body]

\* The try block of make_request: request, getresponse, read, decode.
SendAndRead(api) ==
  CASE api.fail = "request" -> Raise("ConnectionError")
    [] api.fail = "getresponse" -> Raise("TimeoutError")
    [] api.fail = "read" -> Raise("IncompleteRead")
    [] api.fail = "decode" -> Raise("UnicodeDecodeError")
    [] OTHER -> Ret(api.body)

\* try: r  except (classes): fallback
Try(classes, r, fallback) ==
  IF r.exc # "none" /\ Handles(classes, r.exc) THEN Ret(fallback) ELSE r

\* Variant: make_request with except OSError in place of except Exception.
make_request_narrow(doc, dataset, api) ==
  Try({"OSError"}, SendAndRead(api), EmptyStr)

make_request(doc, dataset, api) ==
  Try({"Exception"}, SendAndRead(api), EmptyStr)

\* json.loads(text)
json_loads(text) ==
  IF text.k = "text" THEN Ret(text.json)
  ELSE IF /\ text.s # <<>>
          /\ AllDigits(text.s)
          /\ (Len(text.s) = 1 \/ text.s[1] # "0")
       THEN Ret(Num(DecVal(text.s)))
       ELSE Raise("JSONDecodeError")

\* json.loads(api.make_request(doc, dataset))
LoadData(doc, dataset, api) ==
  LET body == make_request(doc, dataset, api)
  IN IF body.exc # "none" THEN body ELSE json_loads(body.val)

\* r.get(key, default), where evaluating r may already have raised
GetD(r, key, default) ==
  IF r.exc # "none" THEN r ELSE PyGet(r.val, key, default)

\* data.get("Result", [{}])[0]
Result0(data) ==
  LET res == GetD(data, "Result", List(<<EmptyObj>>))
  IN IF res.exc # "none" THEN res ELSE PyIndex0(res.val)

\* ------------------------------------------------------------------------
\* datetime.strptime(text, "%Y-%m-%dT%H:%M:%SZ") and strftime("%d/%m/%Y")
\* ------------------------------------------------------------------------
\* Index of the first character of s at or after from that is in chars;
\* 0 when there is none.
FirstIdx(s, chars, from) ==
  IF \E i \in from..Len(s) : s[i] \in chars
  THEN CHOOSE i \in from..Len(s) :
         /\ s[i] \in chars
         /\ \A j \in from..(i - 1) : s[j] \notin chars
  ELSE 0

\* A one- or two-digit directive whose value lies in lo..hi.
FieldOk(f, lo, hi) ==
  /\ Len(f) \in {1, 2}
  /\ AllDigits(f)
  /\ DecVal(f) \in lo..hi

\* %d also accepts a space followed by one of 1..9.
DayFieldOk(f) ==
  \/ FieldOk(f, 1, 31)
  \/ Len(f) = 2 /\ f[1] = " " /\ IsDigit(f[2]) /\ DigitVal(f[2]) \in 1..9

DayFieldVal(f) == IF f[1] = " " THEN DigitVal(f[2]) ELSE DecVal(f)

IsLeap(y) == (y % 4 = 0 /\ y % 100 # 0) \/ y % 400 = 0

DaysInMonth(y, m) ==
  IF m = 2 THEN (IF IsLeap(y) THEN 29 ELSE 28)
  ELSE IF m \in {4, 6, 9, 11} THEN 30 ELSE 31

strptime(v) ==
  IF v.k # "str" THEN Raise("TypeError")
  ELSE
    LET s == v.s
        a == FirstIdx(s, {"-"}, 1)
        b == IF a = 0 THEN 0 ELSE FirstIdx(s, {"-"}, a + 1)
        c == IF b = 0 THEN 0 ELSE FirstIdx(s, {"T", "t"}, b + 1)
        d == IF c = 0 THEN 0 ELSE FirstIdx(s, {":"}, c + 1)
        e == IF d = 0 THEN 0 ELSE FirstIdx(s, {":"}, d + 1)
        z == IF e = 0 THEN 0 ELSE FirstIdx(s, {"Z", "z"}, e + 1)
        fY == SubSeq(s, 1, a - 1)
        fm == SubSeq(s, a + 1, b - 1)
        fd == SubSeq(s, b + 1, c - 1)
        fH == SubSeq(s, c + 1, d - 1)
        fM == SubSeq(s, d + 1, e - 1)
        fS == SubSeq(s, e + 1, z - 1)
    IN IF /\ z # 0
          /\ z = Len(s)
          /\ Len(fY) = 4 /\ AllDigits(fY)
          /\ FieldOk(fm, 1, 12)
          /\ DayFieldOk(fd)
          /\ FieldOk(fH, 0, 23)
          /\ FieldOk(fM, 0, 59)
          /\ FieldOk(fS, 0, 61)
          /\ DecVal(fY) >= 1
          /\ DayFieldVal(fd) <= DaysInMonth(DecVal(fY), DecVal(fm))
          /\ DecVal(fS) <= 59
       THEN Ret([k |-> "datetime", year |-> DecVal(fY), month |-> DecVal(fm),
                 day |-> DayFieldVal(fd)])
       ELSE Raise("ValueError")

\* %Y prints the year without padding (glibc); the years of the inputs
\* below have four digits.
strftime(dt) ==
  Str(Pad2(dt.day) \o <<"/">> \o Pad2(dt.month) \o <<"/">> \o NatChars(dt.year))

\* ------------------------------------------------------------------------
\* Field resolvers.  api is the outcome the provider gives to the one
\* request the resolver makes.
\* ------------------------------------------------------------------------
get_rg(doc, api) ==
  LET data == LoadData(doc, "basic_data", api)
      alternative_id ==
        GetD(GetD(Result0(data), "BasicData", EmptyObj),
             "AlternativeIdNumbers", EmptyObj)
  IN IF alternative_id.exc # "none" THEN alternative_id
     ELSE IF Truthy(alternative_id.val)
          THEN IF alternative_id.val.k = "obj"
               THEN Ret(alternative_id.val.items[1][2])
               ELSE Raise("AttributeError")
          ELSE Ret(EmptyStr)

get_email(doc, api) ==
  LET data == LoadData(doc, "registration_data", api)
      email ==
        GetD(GetD(GetD(GetD(Result0(data), "RegistrationData", EmptyObj),
                       "Emails", EmptyObj),
                  "Primary", EmptyObj),
             "EmailAddress", EmptyStr)
  IN Try({"JSONDecodeError", "ConnectionError"}, email, EmptyStr)

get_telefone(order, doc, api) ==
  LET data == LoadData(doc, "registration_data", api)
      phones == GetD(GetD(Result0(data), "RegistrationData", EmptyObj),
                     "Phones", EmptyObj)
      areacode == GetD(GetD(phones, order, EmptyObj), "AreaCode", EmptyStr)
      number == GetD(GetD(phones, order, EmptyObj), "Number", EmptyStr)
      raised == IF areacode.exc # "none" THEN areacode.exc ELSE number.exc
  IN IF raised = "none" THEN PyAdd(areacode.val, number.val)
     ELSE IF Handles({"IndexError", "KeyError", "TypeError", "JSONDecodeError"},
                     raised)
          THEN PyAdd(EmptyStr, EmptyStr)
          ELSE Raise(raised)

get_sexo(doc, api) ==
  LET data == LoadData(doc, "basic_data", api)
      sexo == GetD(GetD(Result0(data), "BasicData", EmptyObj),
                   "Gender", EmptyStr)
  IN Try({"JSONDecodeError", "ConnectionError"}, sexo, EmptyStr)

get_idade(doc, api) ==
  LET data == LoadData(doc, "basic_data", api)
      idade == GetD(GetD(Result0(data), "BasicData", EmptyObj), "Age", Null)
      str_idade ==
        IF idade.exc # "none" THEN idade
        ELSE IF idade.val.k # "null" THEN Ret(PyStr(idade.val))
        ELSE Ret(EmptyStr)
  IN Try({"JSONDecodeError", "ConnectionError"}, str_idade, EmptyStr)

get_dt_nasc(doc, api) ==
  LET data == LoadData(doc, "basic_data", api)
      dt_nasc == GetD(GetD(Result0(data), "BasicData", EmptyObj),
                      "BirthDate", Null)
      data_br ==
        IF dt_nasc.exc # "none" THEN dt_nasc
        ELSE IF Truthy(dt_nasc.val)
             THEN LET data_datetime == strptime(dt_nasc.val)
                  IN IF data_datetime.exc # "none" THEN data_datetime
                     ELSE Ret(strftime(data_datetime.val))
             ELSE Ret(EmptyStr)
  IN Try({"JSONDecodeError", "ConnectionError", "ValueError"}, data_br, EmptyStr)

\* ------------------------------------------------------------------------
\* Row fillers.  Here api is the provider client as the filler meets it: the
\* outcomes of the successive requests made through it.  A filler's outcome
\* also carries the diagnostic lines it showed and the number of requests
\* it made.
\* ------------------------------------------------------------------------
FUNC_MAP ==
  [RG |-> "get_rg", EMAIL |-> "get_email", SEXO |-> "get_sexo",
   DT_NASC |-> "get_dt_nasc", IDADE |-> "get_idade"]

\* func(doc, api) for the resolver FUNC_MAP names
CallFunc(func, doc, api) ==
  CASE func = "get_rg" -> get_rg(doc, api)
    [] func = "get_email" -> get_email(doc, api)
    [] func = "get_sexo" -> get_sexo(doc, api)
    [] func = "get_dt_nasc" -> get_dt_nasc(doc, api)
    [] func = "get_idade" -> get_idade(doc, api)

\* pd.isna(cell)
isna(cell) == cell.k \in {"nan", "null"}

Filled(r, shown, nreq) ==
  [exc |-> r.exc, val |-> r.val, shown |-> shown, nreq |-> nreq]

Line(doc, col, value) == [doc |-> doc, col |-> col, value |-> value]

\* Variant: preencher_registro_vazio without the pd.isna test.
preencher_registro_vazio_refetch(row, registro, funcao, api) ==
  IF funcao \in DOMAIN FUNC_MAP
  THEN Filled(CallFunc(FUNC_MAP[funcao], row["CPF"], api[1]), <<>>, 1)
  ELSE Filled(Ret(row[registro]), <<>>, 0)

preencher_registro_vazio(row, registro, funcao, api) ==
  IF isna(row[registro])
  THEN IF funcao \in DOMAIN FUNC_MAP
       THEN LET func == FUNC_MAP[funcao]
                first == CallFunc(func, row["CPF"], api[1])
                text == IF first.exc # "none" THEN first
                        ELSE PyAdd(row["CPF"], first.val)
                second == CallFunc(func, row["CPF"], api[2])
            IN IF text.exc # "none" THEN Filled(text, <<>>, 1)
               ELSE Filled(second, <<Line(row["CPF"], registro, first.val)>>, 2)
       ELSE Filled(Ret(row[registro]), <<>>, 0)
  ELSE Filled(Ret(row[registro]), <<>>, 0)

order_map(order) ==
  CASE order = "P" -> <<"Primary", 1>>
    [] order = "S" -> <<"Secondary", 2>>
    [] OTHER -> <<"", 1>>

TelefoneCol(number) == IF number = 1 THEN "TELEFONE1" ELSE "TELEFONE2"

\* Variant: preencher_telefone_vazio with the two orders of order_map
\* exchanged.
preencher_telefone_vazio_swapped(row, order, api) ==
  LET ordem == IF order = "P" THEN "Secondary" ELSE "Primary"
      telefone_col == TelefoneCol(order_map(order)[2])
  IN IF isna(row[telefone_col])
     THEN Filled(get_telefone(ordem, row["CPF"], api[1]), <<>>, 1)
     ELSE Filled(Ret(row[telefone_col]), <<>>, 0)

\* Variant: preencher_telefone_vazio reading TELEFONE1 for both orders.
preencher_telefone_vazio_col1(row, order, api) ==
  LET ordem == order_map(order)[1]
      telefone_col == TelefoneCol(order_map(order)[2])
  IN IF isna(row["TELEFONE1"])
     THEN Filled(get_telefone(ordem, row["CPF"], api[1]), <<>>, 1)
     ELSE Filled(Ret(row["TELEFONE1"]), <<>>, 0)

preencher_telefone_vazio(row, order, api) ==
  LET ordem == order_map(order)[1]
      telefone_col == TelefoneCol(order_map(order)[2])
  IN IF isna(row[telefone_col])
     THEN LET telefone == get_telefone(ordem, row["CPF"], api[1])
          IN IF telefone.exc # "none" THEN Filled(telefone, <<>>, 1)
             ELSE Filled(telefone,
                         <<Line(row["CPF"], telefone_col, telefone.val)>>, 1)
     ELSE Filled(Ret(row[telefone_col]), <<>>, 0)

\* ------------------------------------------------------------------------
\* Bounds and inputs of the driving loop
\* ------------------------------------------------------------------------
NumRows == 1

Rows == 1..NumRows

registros == {"RG", "EMAIL", "SEXO", "IDADE", "DT_NASC", "TELEFONE1", "TELEFONE2"}

\* The dataset each column's resolver asks the provider for.
Dataset(registro) ==
  IF registro \in {"EMAIL", "TELEFONE1", "TELEFONE2"}
  THEN "registration_data" ELSE "basic_data"

\* The CPF of row r of the table: a string of digits.
Cpf(r) == Str(<<"0", "0">> \o NatChars(r))

\* The value a column holds in a row of the input file that has one.
Known(registro) ==
  CASE registro = "RG" -> Str(<<"7", "7">>)
    [] registro = "EMAIL" -> Str(<<"o", "@", "o">>)
    [] registro = "SEXO" -> Str(<<"F">>)
    [] registro = "IDADE" -> Num(30)
    [] registro = "DT_NASC" -> Str(<<"0", "1", "/", "0", "1", "/", "1", "9", "8", "0">>)
    [] registro = "TELEFONE1" -> Str(<<"3", "1", "5">>)
    [] registro = "TELEFONE2" -> Str(<<"4", "1", "6">>)

\* One person's section of a provider response.
Person(rg, email, sexo, idade, nasc, p1, p2) ==
  Obj(<< <<"BasicData",
           Obj(<< <<"AlternativeIdNumbers", rg>>, <<"Gender", sexo>>,
                  <<"Age", idade>>, <<"BirthDate", nasc>> >>)>>,
         <<"RegistrationData",
           Obj(<< <<"Emails",
                    Obj(<< <<"Primary", Obj(<< <<"EmailAddress", email>> >>)>> >>)>>,
                  <<"Phones",
                    Obj(<< <<"Primary", p1>>, <<"Secondary", p2>> >>)>> >>)>> >>)

Phone(areacode, number) ==
  Obj(<< <<"AreaCode", areacode>>, <<"Number", number>> >>)

Response(result) == JsonText(Obj(<< <<"Result", result>> >>))

DateA == Str(<<"1", "9", "9", "0", "-", "0", "5", "-", "2", "0", "T",
               "0", "0", ":", "0", "0", ":", "0", "0", "Z">>)

PersonA ==
  Person(Obj(<< <<"SSP", Str(<<"1", "2">>)>>, <<"CNH", Str(<<"9">>)>> >>),
         Str(<<"a", "@", "x">>), Str(<<"M">>), Num(34), DateA,
         Phone(Str(<<"1", "1">>), Str(<<"9", "8">>)),
         Phone(Str(<<"2", "1">>), Str(<<"3", "4">>)))

\* What the provider may do to a request of the driving loop: the request
\* fails, or it answers with a person's data, or with an empty Result list.
LoopOutcomes ==
  { Outcome("request", EmptyStr),
    Outcome("none", Response(List(<<PersonA>>))),
    Outcome("none", Response(List(<<>>))) }

Unasked == Outcome("unasked", EmptyStr)

\* The null cells a row of the input file may have.
NullShapes ==
  { {}, {"EMAIL"}, {"TELEFONE1"}, {"TELEFONE1", "TELEFONE2"},
    {"RG", "SEXO"}, {"IDADE", "DT_NASC"} }

\* The tables read from the input file: nulls is the set of null cells.
Table(nulls) ==
  [r \in Rows |->
    [c \in registros \cup {"CPF"} |->
      IF c = "CPF" THEN Cpf(r)
      ELSE IF <<r, c>> \in nulls THEN NaN ELSE Known(c)]]

\* ------------------------------------------------------------------------
\* Inputs of the resolvers taken one call at a time
\* ------------------------------------------------------------------------
MaxMonth == 13
MaxDay == 32

Years == {1900, 1990, 2000, 2024}

TimeZ == <<"T", "0", "0", ":", "0", "0", ":", "0", "0", "Z">>

\* year-month-day followed by a midnight time, month and day padded or not
DateText(y, m, d, padded) ==
  Str(NatChars(y) \o <<"-">> \o (IF padded THEN Pad2(m) ELSE NatChars(m))
      \o <<"-">> \o (IF padded THEN Pad2(d) ELSE NatChars(d)) \o TimeZ)

OddDates ==
  { Str(<<"n", "o", "t", "-", "a", "-", "d", "a", "t", "e">>),
    Str(<<"1", "9", "9", "0", "-", "0", "5", "-", "2", "0">>),
    Str(<<"1", "9", "9", "0", "-", "0", "5", "-", "2", "0", "t",
          "0", "0", ":", "0", "0", ":", "0", "0", "z">>),
    Str(<<"1", "9", "9", "0", "-", "0", "5", "-", "2", "0", "T",
          "0", "0", ":", "0", "0", ":", "0", "0", "Z", " ">>),
    Str(<<"1", "9", "9", "0", "-", "0", "5", "-", " ", "2", "T",
          "0", "0", ":", "0", "0", ":", "0", "0", "Z">>),
    Str(<<"1", "9", "9", "0", "-", "0", "5", "-", "2", "0", "T",
          "2", "4", ":", "0", "0", ":", "0", "0", "Z">>),
    Str(<<"1", "9", "9", "0", "-", "0", "5", "-", "2", "0", "T",
          "2", "3", ":", "6", "0", ":", "0", "0", "Z">>),
    Str(<<"1", "9", "9", "0", "-", "0", "5", "-", "2", "0", "T",
          "2", "3", ":", "5", "9", ":", "6", "0", "Z">>),
    Str(<<"1", "9", "9", "0", "-", "0", "5", "-", "2", "0", "T",
          "2", "3", ":", "5", "9", ":", "5", "9", "Z">>),
    Str(<<"1", "9", "9", "0", "-", "0", "5", "-", "2", "0", "T",
          "7", ":", "5", ":", "9", "Z">>),
    Str(<<"1", "9", "9", "0", "0", "-", "0", "5", "-", "2", "0", "T",
          "0", "0", ":", "0", "0", ":", "0", "0", "Z">>),
    Str(<<"0", "0", "0", "0", "-", "0", "5", "-", "2", "0", "T",
          "0", "0", ":", "0", "0", ":", "0", "0", "Z">>),
    Str(<<"1", "9", "9", "0", "/", "0", "5", "/", "2", "0", "T",
          "0", "0", ":", "0", "0", ":", "0", "0", "Z">>),
    Str(<<"2", "0", "/", "0", "5", "/", "1", "9", "9", "0">>) }

DateTexts ==
  {DateText(y, m, d, padded) :
     y \in Years, m \in 0..MaxMonth, d \in 0..MaxDay, padded \in BOOLEAN}
  \cup OddDates

\* JSON values that may stand where a scalar is expected.
FieldVals ==
  { Str(<<"M">>), EmptyStr, Num(0), Num(34), Null, List(<<>>),
    List(<<Num(1), Str(<<"a">>)>>), EmptyObj,
    Obj(<< <<"SSP", Str(<<"1", "2">>)>>, <<"CNH", Num(9)>> >>) }

\* A value with a key whose repr is not modelled cannot stand for Age.
AgeVals == {v \in FieldVals : v.k # "obj" \/ v.items = <<>>}

FieldsA == [rg |-> Obj(<< <<"SSP", Str(<<"1", "2">>)>> >>),
      email |-> Str(<<"a", "@", "x">>), sexo |-> Str(<<"M">>),
      idade |-> Num(34), nasc |-> DateA,
      p1 |-> Phone(Str(<<"1", "1">>), Str(<<"9", "8">>)),
      p2 |-> Phone(Str(<<"2", "1">>), Str(<<"3", "4">>))]

One(f) == Response(List(<<Person(f.rg, f.email, f.sexo, f.idade, f.nasc, f.p1, f.p2)>>))

\* Responses with the expected shape and one field varied.
ShapedResponses ==
  {One([FieldsA EXCEPT !.rg = v]) : v \in FieldVals}
  \cup {One([FieldsA EXCEPT !.email = v]) : v \in FieldVals}
  \cup {One([FieldsA EXCEPT !.sexo = v]) : v \in FieldVals}
  \cup {One([FieldsA EXCEPT !.idade = v]) : v \in AgeVals}
  \cup {One([FieldsA EXCEPT !.nasc = v]) : v \in FieldVals \cup DateTexts}
  \cup {One([FieldsA EXCEPT !.p1 = Phone(a, n), !.p2 = Phone(n, a)]) :
          a \in FieldVals, n \in FieldVals}
  \cup {One([FieldsA EXCEPT !.p1 = v]) : v \in FieldVals}

\* Responses whose shape is not the expected one.
OddResponses ==
  {EmptyStr, Str(<<"<", "h", "t", "m", "l", ">">>), Str(<<"1", "2">>)}
  \cup {JsonText(v) : v \in FieldVals}
  \cup {Response(v) : v \in FieldVals}
  \cup {Response(List(<<v>>)) : v \in FieldVals}
  \cup {Response(List(<<Obj(<< <<"BasicData", v>>, <<"RegistrationData", v>> >>)>>)) :
          v \in FieldVals}
  \cup {Response(List(<<Obj(<< <<"RegistrationData",
          Obj(<< <<"Emails", v>>, <<"Phones", v>> >>)>> >>)>>)) : v \in FieldVals}
  \cup {Response(List(<<Obj(<< <<"RegistrationData",
          Obj(<< <<"Emails", Obj(<< <<"Primary", v>> >>)>> >>)>> >>)>>)) : v \in FieldVals}

FailStages == {"request", "getresponse", "read", "decode"}

ResolverInputs ==
  {Outcome(f, Response(List(<<PersonA>>))) : f \in FailStages}
  \cup {Outcome("none", b) : b \in ShapedResponses \cup OddResponses}

\* ------------------------------------------------------------------------
\* State
\* ------------------------------------------------------------------------
VARIABLES
  df,        \* the table in memory: row -> column -> cell
  df0,       \* the table as read from the input file
  todo,      \* the columns of registros the for loop has not visited yet
  registro,  \* the column being applied ("none" between columns)
  rowi,      \* the row df.apply is at (0 between columns)
  newcol,    \* the values df.apply has collected for the column so far
  pc,        \* "loop", "apply", "done" (output written), "crashed", "idle"
  prov,      \* (row, dataset) -> the outcomes the provider has given to the
             \* requests for that row's document and that dataset
  answers,   \* row -> column -> the outcome of the request whose value
             \* the filler returned for that cell
  requests,  \* requests made to the provider so far
  console,   \* the diagnostic lines shown so far (order and repeats dropped)
  out,       \* the table written to the output file (<<>> before)
  rin,       \* resolver calls: the provider's outcome given to the call
  rcall,     \* resolver calls: the function called and its order argument
  rout       \* resolver calls: what the call returned or raised

vars == <<df, df0, todo, registro, rowi, newcol, pc, prov, answers,
          requests, console, out, rin, rcall, rout>>

loopVars == <<df, df0, todo, registro, rowi, newcol, pc, prov, answers,
              requests, console, out>>

Datasets == {"basic_data", "registration_data"}

NoResolverCall == [fn |-> "none", order |-> ""]

\* main() up to the for loop: the client is built and the file is read.
Init ==
  /\ \E shape \in [Rows -> NullShapes] :
       df = Table({<<r, c>> \in Rows \X registros : c \in shape[r]})
  /\ df0 = df
  /\ todo = registros
  /\ registro = "none"
  /\ rowi = 0
  /\ newcol = <<>>
  /\ pc = "loop"
  /\ prov = [key \in Rows \X Datasets |-> {}]
  /\ answers = [r \in Rows |-> [c \in registros |-> Unasked]]
  /\ requests = 0
  /\ console = {}
  /\ out = <<>>
  /\ rin = Unasked
  /\ rcall = NoResolverCall
  /\ rout = Ret(Null)

\* ------------------------------------------------------------------------
\* The driving loop of main()
\* ------------------------------------------------------------------------
\* for registro in registros: a set is visited in no specified order.
NextColumn ==
  /\ pc = "loop"
  /\ \E c \in todo : registro' = c
  /\ rowi' = 1
  /\ newcol' = <<>>
  /\ pc' = "apply"
  /\ UNCHANGED <<df, df0, todo, prov, answers, requests, console, out,
                 rin, rcall, rout>>

\* The provider's outcomes for the next two requests: nothing makes it
\* answer two requests for the same document and dataset alike.
ProviderOutcomes == LoopOutcomes \X LoopOutcomes

\* One invocation of a filler by df.apply, and df[registro] = ... after the
\* last row.
Applied(res, api) ==
  /\ console' = console \cup {res.shown[i] : i \in 1..Len(res.shown)}
  /\ requests' = requests + res.nreq
  /\ prov' = [prov EXCEPT ![<<rowi, Dataset(registro)>>] =
                              @ \cup {api[i] : i \in 1..res.nreq}]
  /\ IF res.exc # "none"
     THEN /\ pc' = "crashed"
          /\ UNCHANGED <<df, todo, registro, rowi, newcol, answers>>
     ELSE /\ answers' = IF res.nreq > 0
                        THEN [answers EXCEPT ![rowi][registro] = api[res.nreq]]
                        ELSE answers
          /\ IF rowi < NumRows
             THEN /\ newcol' = Append(newcol, res.val)
                  /\ rowi' = rowi + 1
                  /\ UNCHANGED <<df, todo, registro, pc>>
             ELSE /\ df' = [r \in Rows |->
                             [df[r] EXCEPT ![registro] = Append(newcol, res.val)[r]]]
                  /\ todo' = todo \ {registro}
                  /\ registro' = "none"
                  /\ rowi' = 0
                  /\ newcol' = <<>>
                  /\ pc' = "loop"
  /\ UNCHANGED <<df0, out, rin, rcall, rout>>

startswith_TELEFONE(c) == c \in {"TELEFONE1", "TELEFONE2"}

ApplyTelefone ==
  /\ pc = "apply"
  /\ startswith_TELEFONE(registro)
  /\ LET ordem == IF registro = "TELEFONE1" THEN "P" ELSE "S"
         row == df[rowi]
     IN \E api \in ProviderOutcomes :
          Applied(preencher_telefone_vazio(row, ordem, api), api)

ApplyRegistro ==
  /\ pc = "apply"
  /\ ~startswith_TELEFONE(registro)
  /\ LET row == df[rowi]
     IN \E api \in ProviderOutcomes :
          Applied(preencher_registro_vazio(row, registro, registro, api), api)

\* df.to_csv(...)
WriteCsv ==
  /\ pc = "loop"
  /\ todo = {}
  /\ pc' = "done"
  /\ out' = df
  /\ UNCHANGED <<df, df0, todo, registro, rowi, newcol, prov, answers,
                 requests, console, rin, rcall, rout>>

Next == NextColumn \/ ApplyTelefone \/ ApplyRegistro \/ WriteCsv

Spec == Init /\ [][Next]_vars

\* ------------------------------------------------------------------------
\* The provider client and the resolvers, one call at a time
\* ------------------------------------------------------------------------
InitCalls ==
  /\ df = Table({})
  /\ df0 = df
  /\ todo = {}
  /\ registro = "none"
  /\ rowi = 0
  /\ newcol = <<>>
  /\ pc = "idle"
  /\ prov = [key \in Rows \X Datasets |-> {}]
  /\ answers = [r \in Rows |-> [c \in registros |-> Unasked]]
  /\ requests = 0
  /\ console = {}
  /\ out = <<>>
  /\ rin \in ResolverInputs
  /\ rcall = NoResolverCall
  /\ rout = Ret(Null)

Called(fn, order, r) ==
  /\ pc = "idle"
  /\ rcall' = [fn |-> fn, order |-> order]
  /\ rout' = r
  /\ UNCHANGED <<loopVars, rin>>

Call_make_request ==
  \E dataset \in Datasets :
    Called("make_request", "", make_request(Cpf(1), dataset, rin))

Call_get_rg == Called("get_rg", "", get_rg(Cpf(1), rin))

Call_get_email == Called("get_email", "", get_email(Cpf(1), rin))

Call_get_telefone ==
  \E order \in {"Primary", "Secondary"} :
    Called("get_telefone", order, get_telefone(order, Cpf(1), rin))

Call_get_sexo == Called("get_sexo", "", get_sexo(Cpf(1), rin))

Call_get_idade == Called("get_idade", "", get_idade(Cpf(1), rin))

Call_get_dt_nasc == Called("get_dt_nasc", "", get_dt_nasc(Cpf(1), rin))

NextCalls ==
  \/ Call_make_request
  \/ Call_get_rg
  \/ Call_get_email
  \/ Call_get_telefone
  \/ Call_get_sexo
  \/ Call_get_idade
  \/ Call_get_dt_nasc

SpecCalls == InitCalls /\ [][NextCalls]_vars

\* ------------------------------------------------------------------------
\* Properties
\* ------------------------------------------------------------------------
Resolvers ==
  {"get_rg", "get_email", "get_telefone", "get_sexo", "get_idade", "get_dt_nasc"}

WasNull(r, c) == isna(df0[r][c])

\* The filler has returned for cell (r, c).
Returned(r, c) ==
  \/ c \notin todo
  \/ pc \in {"apply", "crashed"} /\ c = registro /\ r < rowi

\* The filler has been entered for cell (r, c).
Entered(r, c) ==
  \/ Returned(r, c)
  \/ pc = "crashed" /\ c = registro /\ r = rowi

\* The value the filler returned for cell (r, c).
ReturnedValue(r, c) == IF c \in todo THEN newcol[r] ELSE df[r][c]

\* C1: a filler invoked on a non-null cell returns the existing value and
\* makes no request: every returned value of such a cell is the value read
\* from the file, no request's answer is used for it, a row's document is
\* requested from a dataset only when a null cell of the row is served by
\* that dataset, and the requests made never exceed the two that each
\* entered null cell may cost.
C1_NonNullUntouched ==
  /\ \A r \in Rows, c \in registros :
       ~WasNull(r, c) =>
         /\ df[r][c] = df0[r][c]
         /\ Returned(r, c) => ReturnedValue(r, c) = df0[r][c]
         /\ answers[r][c] = Unasked
  /\ \A r \in Rows, d \in Datasets :
       (\A c \in registros : Dataset(c) = d => ~(WasNull(r, c) /\ Entered(r, c)))
         => prov[<<r, d>>] = {}
  /\ requests <=
       2 * Cardinality({rc \in Rows \X registros :
                          WasNull(rc[1], rc[2]) /\ Entered(rc[1], rc[2])})

\* Both fillers have returned for non-null cells of a row and nothing was
\* requested.
C1_Witness ==
  /\ requests = 0
  /\ \E r \in Rows :
       /\ ~WasNull(r, "RG") /\ Returned(r, "RG")
       /\ ~WasNull(r, "TELEFONE2") /\ Returned(r, "TELEFONE2")

\* C2: on a transport failure every resolver returns "" and does not raise.
C2_ResolversDegrade ==
  (rcall.fn \in Resolvers /\ rin.fail # "none") => rout = Ret(EmptyStr)

\* C3: no provider outcome makes an exception reach the driving loop.
C3_NeverAborts == pc # "crashed"

\* C4: a filler makes exactly one request for a null cell and none for a
\* non-null one, so between columns and at the end the requests made are as
\* many as the null cells of the columns visited.
C4_OneRequestPerNullCell ==
  pc \in {"loop", "done"} =>
    requests = Cardinality({rc \in Rows \X registros :
                              WasNull(rc[1], rc[2]) /\ rc[2] \notin todo})

\* C5: make_request never raises: it returns "" when any statement of its
\* try block fails and the decoded body otherwise.
C5_MakeRequestNeverRaises ==
  rcall.fn = "make_request" =>
    rout = IF rin.fail # "none" THEN Ret(EmptyStr) ELSE Ret(rin.body)

\* make_request returned "" for a body that could not be decoded.
C5_Witness ==
  /\ rcall.fn = "make_request"
  /\ rin.fail = "decode"
  /\ rout = Ret(EmptyStr)

\* C6: whatever a resolver returns is a string.
C6_ResolversReturnStrings ==
  (rcall.fn \in Resolvers /\ rout.exc = "none") => rout.val.k = "str"

\* C7: once the output is written, a row whose two phone cells were null
\* holds in TELEFONE1 the Primary phone and in TELEFONE2 the Secondary phone
\* of the answers given for those two cells, and every cell that was not
\* null holds the value read from the file.
C7_PhonesNotCrossed ==
  pc = "done" =>
    \A r \in Rows :
      /\ (WasNull(r, "TELEFONE1") /\ WasNull(r, "TELEFONE2")) =>
           /\ out[r]["TELEFONE1"] =
                get_telefone("Primary", Cpf(r), answers[r]["TELEFONE1"]).val
           /\ out[r]["TELEFONE2"] =
                get_telefone("Secondary", Cpf(r), answers[r]["TELEFONE2"]).val
      /\ \A c \in registros : ~WasNull(r, c) => out[r][c] = df0[r][c]

\* A row's two null phone cells were filled with the two phones of PersonA.
C7_Witness ==
  /\ pc = "done"
  /\ \E r \in Rows :
       /\ WasNull(r, "TELEFONE1") /\ WasNull(r, "TELEFONE2")
       /\ out[r]["TELEFONE1"] = Str(<<"1", "1", "9", "8">>)
       /\ out[r]["TELEFONE2"] = Str(<<"2", "1", "3", "4">>)

\* C8: the value the generic filler shows for a cell is the value written
\* into that cell.
C8_ShownIsWritten ==
  pc = "done" =>
    \A line \in console : \A r \in Rows :
      (Cpf(r) = line.doc /\ line.col \in DOMAIN FUNC_MAP)
        => out[r][line.col] = line.value

\* The BirthDate of a response that has the expected shape.
BirthDateOf(o) ==
  GetD(GetD(Result0(json_loads(o.body)), "BasicData", EmptyObj),
       "BirthDate", Null)

\* text has the form YYYY-MM-DDThh:mm:ssZ and names a date and a time.
IsIsoDate(v) ==
  /\ v.k = "str"
  /\ Len(v.s) = 20
  /\ \A i \in {1, 2, 3, 4, 6, 7, 9, 10, 12, 13, 15, 16, 18, 19} : IsDigit(v.s[i])
  /\ v.s[5] = "-" /\ v.s[8] = "-" /\ v.s[11] = "T"
  /\ v.s[14] = ":" /\ v.s[17] = ":" /\ v.s[20] = "Z"
  /\ DecVal(SubSeq(v.s, 1, 4)) >= 1
  /\ DecVal(SubSeq(v.s, 6, 7)) \in 1..12
  /\ DecVal(SubSeq(v.s, 9, 10)) \in
       1..DaysInMonth(DecVal(SubSeq(v.s, 1, 4)), DecVal(SubSeq(v.s, 6, 7)))
  /\ DecVal(SubSeq(v.s, 12, 13)) \in 0..23
  /\ DecVal(SubSeq(v.s, 15, 16)) \in 0..59
  /\ DecVal(SubSeq(v.s, 18, 19)) \in 0..59

\* text is built like a date and time (digits, two "-", a T, two ":" and a
\* final Z) but is padded or cased otherwise, or names no date or time.
IsLooseDate(v) ==
  /\ v.k = "str"
  /\ ~IsIsoDate(v)
  /\ \A i \in 1..Len(v.s) :
       IsDigit(v.s[i]) \/ v.s[i] \in {"-", ":", "T", "t", "Z", "z", " "}
  /\ Cardinality({i \in 1..Len(v.s) : v.s[i] = "-"}) = 2
  /\ Cardinality({i \in 1..Len(v.s) : v.s[i] = ":"}) = 2
  /\ Cardinality({i \in 1..Len(v.s) : v.s[i] \in {"T", "t"}}) = 1
  /\ Cardinality({i \in 1..Len(v.s) : v.s[i] \in {"Z", "z"}}) = 1
  /\ v.s[Len(v.s)] \in {"Z", "z"}

\* C9: get_dt_nasc turns YYYY-MM-DDThh:mm:ssZ into DD/MM/YYYY and returns ""
\* for an absent, null or malformed BirthDate, without raising.  A text that
\* is built like a date and time but is not of that exact form may count as
\* either: for it the result is only required to be a string.
C9_BirthDate ==
  (/\ rcall.fn = "get_dt_nasc"
   /\ rin.fail = "none"
   /\ BirthDateOf(rin).exc = "none") =>
    LET b == BirthDateOf(rin).val
    IN IF IsIsoDate(b)
       THEN rout = Ret(Str(SubSeq(b.s, 9, 10) \o <<"/">> \o SubSeq(b.s, 6, 7)
                           \o <<"/">> \o SubSeq(b.s, 1, 4)))
       ELSE IF IsLooseDate(b)
            THEN rout.exc = "none" /\ rout.val.k = "str"
            ELSE rout = Ret(EmptyStr)

\* The provider has answered every (document, dataset) always alike.
Deterministic == \A key \in Rows \X Datasets : Cardinality(prov[key]) <= 1

\* The resolver of a column applied to a provider outcome.
Resolve(c, doc, o) ==
  CASE c = "TELEFONE1" -> get_telefone("Primary", doc, o)
    [] c = "TELEFONE2" -> get_telefone("Secondary", doc, o)
    [] OTHER -> CallFunc(FUNC_MAP[c], doc, o)

\* C10: with a provider that answers alike, the table written depends only
\* on the table read and on the provider's answers, not on the order in
\* which the columns were visited: a cell that was null holds what its
\* column's resolver makes of the provider's answer for the row's document,
\* any other cell the value read.
C10_OrderIndependent ==
  (pc = "done" /\ Deterministic) =>
    \A r \in Rows, c \in registros :
      IF WasNull(r, c)
      THEN \E o \in prov[<<r, Dataset(c)>>] : out[r][c] = Resolve(c, Cpf(r), o).val
      ELSE out[r][c] = df0[r][c]

\* The output was written for a table with two null cells in a row, which
\* the loop may fill in either order, both filled from the provider.
C10_Witness ==
  /\ pc = "done"
  /\ Deterministic
  /\ \E r \in Rows :
       /\ WasNull(r, "TELEFONE1") /\ WasNull(r, "TELEFONE2")
       /\ out[r]["TELEFONE1"] # out[r]["TELEFONE2"]
       /\ out[r]["TELEFONE1"] # EmptyStr

====
